---- MODULE Spec2Model ----
(***************************************************************************)
(* SysSonic demo: map_to_music (src/demo_visualization.py), the mapping    *)
(* from one snapshot of system metrics to musical parameters.              *)
(*                                                                         *)
(* Number representation.  The source computes with Python floats; the     *)
(* model computes the same quantities exactly, as integer numerators over  *)
(* fixed denominators:                                                     *)
(*   cpu_usage, memory_usage, temperature   tenths (5.0 % is 50)           *)
(*   disk_*_bytes, network_*_bytes          bytes (Python ints)            *)
(*   bass_velocity                          thousandths (x / 1000)         *)
(*   io_normalized                          x / IoRef                      *)
(*   network_normalized, tempo              x / NetRef                     *)
(*   temp_normalized, filter_cutoff,                                       *)
(*   reverb_mix                             x / (10 * TempSpan)            *)
(* A comparison with a float literal (n < 0.3) is the cross-multiplied     *)
(* integer comparison (10 * num < 3 * den).                                *)
(***************************************************************************)
EXTENDS Integers, Sequences, FiniteSets

VARIABLES metrics, musical, pc

vars == <<metrics, musical, pc>>

\* ------------------------------------------------------------------ bounds
\* Number of grid steps each input set extends beyond the nominal range of
\* its field, on both sides.
MaxOver == 1

\* ------------------------------------------------------- program constants
IoRef == 10000000
NetRef == 5000000
TempBase == 30
TempSpan == 40
TempoBase == 90
TempoRange == 40
FilterBase == 400
FilterRange == 2600
ReverbRange == 50

\* ------------------------------------------------------------------ helpers
Min(a, b) == IF a <= b THEN a ELSE b
Max(a, b) == IF a >= b THEN a ELSE b

\* Python int(x) of the quotient n / d (d > 0): truncation toward zero.
PyInt(n, d) == IF n >= 0 THEN n \div d ELSE -((-n) \div d)

\* ------------------------------------------------------------- map_to_music
scale == <<"A3", "C4", "D4", "E4", "G4", "A4", "C5", "D5", "E5", "G5", "A5", "C6", "D6">>

\* Variant: the index wrapped into the scale with a modulus instead of reaching
\* its last entry.
scale_index_wrap(m) == PyInt(m.cpu_usage * (Len(scale) - 1), 1000) % (Len(scale) - 1)

\* int((cpu_usage / 100.0) * (len(scale) - 1)), cpu_usage in tenths.
scale_index(m) == PyInt(m.cpu_usage * (Len(scale) - 1), 1000)

\* scale[scale_index] raises IndexError outside -len(scale) .. len(scale)-1.
IndexError(m) == scale_index(m) >= Len(scale) \/ scale_index(m) < -Len(scale)

\* Python list indexing: a negative index counts from the end of the list.
melody_note(m) ==
    IF scale_index(m) >= 0 THEN scale[scale_index(m) + 1]
    ELSE scale[Len(scale) + scale_index(m) + 1]

\* Variant: the bucket tests written with >= instead of >.
bass_ge(m) ==
    IF m.memory_usage >= 750 THEN [note |-> "A2", desc |-> "Deep, ominous"]
    ELSE IF m.memory_usage >= 500 THEN [note |-> "E2", desc |-> "Mid-range"]
    ELSE [note |-> "E3", desc |-> "Light, comfortable"]

bass(m) ==
    IF m.memory_usage > 750 THEN [note |-> "A2", desc |-> "Deep, ominous"]
    ELSE IF m.memory_usage > 500 THEN [note |-> "E2", desc |-> "Mid-range"]
    ELSE [note |-> "E3", desc |-> "Light, comfortable"]

\* memory_usage / 100.0, in thousandths: tenths / 100 = tenths / 1000 units.
bass_velocity(m) == m.memory_usage

total_io(m) == m.disk_read_bytes + m.disk_write_bytes

\* min(total_io / 10_000_000, 1.0), numerator over IoRef.
io_normalized(m) == Min(total_io(m), IoRef)

\* Variant: the bucket tests written with <= instead of <.
rhythm_le(m) ==
    IF 10 * io_normalized(m) <= 3 * IoRef THEN "Sparse (4-on-floor)"
    ELSE IF 10 * io_normalized(m) <= 6 * IoRef THEN "Moderate (with fills)"
    ELSE "Dense (complex polyrhythms)"

rhythm(m) ==
    IF 10 * io_normalized(m) < 3 * IoRef THEN "Sparse (4-on-floor)"
    ELSE IF 10 * io_normalized(m) < 6 * IoRef THEN "Moderate (with fills)"
    ELSE "Dense (complex polyrhythms)"

total_network(m) == m.network_rx_bytes + m.network_tx_bytes

\* min(total_network / 5_000_000, 1.0), numerator over NetRef.
network_normalized(m) == Min(total_network(m), NetRef)

\* 90 + network_normalized * 40, numerator over NetRef.
tempo(m) == TempoBase * NetRef + network_normalized(m) * TempoRange

\* Variant: the lower clamp max(0, ...) left out.
temp_normalized_no_max(m) == Min(m.temperature - 10 * TempBase, 10 * TempSpan)

\* max(0, min((temperature - 30) / 40, 1.0)), numerator over 10 * TempSpan.
temp_normalized(m) ==
    Max(0, Min(m.temperature - 10 * TempBase, 10 * TempSpan))

\* 400 + temp_normalized * 2600, numerator over 10 * TempSpan.
filter_cutoff(m) == FilterBase * 10 * TempSpan + temp_normalized(m) * FilterRange

\* Variant: the reverb mix scaled to 100 percent instead of 50.
reverb_mix_full(m) == temp_normalized(m) * 100

\* temp_normalized * 50, numerator over 10 * TempSpan.
reverb_mix(m) == temp_normalized(m) * ReverbRange

\* Variant: the label bucketed on the raw temperature in degrees (30 and 70)
\* instead of on the normalised value.
atmosphere_raw(m) ==
    IF m.temperature < 10 * TempBase THEN "Tight, dry"
    ELSE IF m.temperature < 10 * (TempBase + TempSpan) THEN "Moderate space"
    ELSE "Spacious, concerning"

atmosphere(m) ==
    IF 10 * temp_normalized(m) < 3 * 10 * TempSpan THEN "Tight, dry"
    ELSE IF 10 * temp_normalized(m) < 7 * 10 * TempSpan THEN "Moderate space"
    ELSE "Spacious, concerning"

\* The dictionary map_to_music returns when the scale lookup does not raise.
map_to_music(m) ==
    [ melody_note   |-> melody_note(m),
      bass_note     |-> bass(m).note,
      bass_desc     |-> bass(m).desc,
      bass_velocity |-> bass_velocity(m),
      rhythm        |-> rhythm(m),
      tempo         |-> tempo(m),
      filter_cutoff |-> filter_cutoff(m),
      reverb_mix    |-> reverb_mix(m),
      atmosphere    |-> atmosphere(m) ]

\* ------------------------------------------------------------------- inputs
\* The "Idle System" scenario of simulate_metrics.
Idle ==
    [ cpu_usage |-> 50, memory_usage |-> 350,
      disk_read_bytes |-> 1024, disk_write_bytes |-> 512,
      network_rx_bytes |-> 2048, network_tx_bytes |-> 1024,
      temperature |-> 400 ]

CpuValues ==
    {250 * k : k \in (0 - MaxOver) .. (4 + MaxOver)}
        \cup {-2000, -100, -50, 50, 83, 84, 950, 1083, 1084}

MemValues ==
    {500 * k : k \in (0 - MaxOver) .. (2 + MaxOver)} \cup {350, 501, 750, 751}

DiskReadValues ==
    {10000000 * k - 512 : k \in (0 - MaxOver) .. MaxOver}
        \cup {1024, 2999487, 2999488, 5999487, 5999488}

DiskWriteValues == {512}

NetRxValues ==
    {5000000 * k - 1024 : k \in (0 - MaxOver) .. MaxOver} \cup {2048, 2498976}

NetTxValues == {1023, 1024}

TempValues ==
    {300 + 200 * k : k \in (0 - MaxOver) .. (2 + MaxOver)}
        \cup {-400, 299, 400, 419, 420, 579, 580}

Snapshots ==
    [ cpu_usage : CpuValues, memory_usage : MemValues,
      disk_read_bytes : DiskReadValues, disk_write_bytes : DiskWriteValues,
      network_rx_bytes : NetRxValues, network_tx_bytes : NetTxValues,
      temperature : TempValues ]

None == [none |-> TRUE]

\* ------------------------------------------------------------ state machine
Init ==
    /\ metrics \in Snapshots
    /\ musical = None
    /\ pc = "call"

\* musical = map_to_music(metrics): the call returns the dictionary, or the
\* scale lookup raises and nothing is assigned.
Call ==
    /\ pc = "call"
    /\ IF IndexError(metrics)
       THEN /\ pc' = "IndexError"
            /\ UNCHANGED musical
       ELSE /\ pc' = "returned"
            /\ musical' = map_to_music(metrics)
    /\ UNCHANGED metrics

Next == Call

Spec == Init /\ [][Next]_vars

\* ------------------------------------------------------------------- claims
\* Denominators of the returned numerators (see the header).
TempDen == 10 * TempSpan

Clamp(x, lo, hi) == Max(lo, Min(x, hi))

\* Position (0-based) of a note in the scale; the notes are pairwise distinct.
IndexOf(note) == CHOOSE i \in 0 .. (Len(scale) - 1) : scale[i + 1] = note

Returned == pc = "returned"

\* C1: map_to_music is total: for every snapshot, out-of-range ones included,
\* the call returns a full set of musical parameters and never raises.
C1_Total ==
    pc # "call" =>
        /\ pc = "returned"
        /\ DOMAIN musical = DOMAIN map_to_music(Idle)

\* C2: for every cpu_usage, below 0 and above 100 included, the melody note
\* is the scale entry at index floor(clamp(cpu_usage, 0, 100) / 100 * 12).
C2_MelodyClamped ==
    pc # "call" =>
        /\ pc = "returned"
        /\ musical.melody_note
             = scale[((Clamp(metrics.cpu_usage, 0, 1000) * 12) \div 1000) + 1]

\* C3: for every snapshot, negative or arbitrarily large network byte counts
\* included, the returned tempo lies in [90, 130] BPM.
C3_TempoRange ==
    Returned =>
        /\ musical.tempo >= 90 * NetRef
        /\ musical.tempo <= 130 * NetRef

\* C4: for every snapshot, memory_usage below 0 or above 100 included, the
\* returned bass_velocity is memory_usage / 100 clamped to [0, 1].
C4_VelocityClamped ==
    Returned =>
        /\ musical.bass_velocity = Clamp(metrics.memory_usage, 0, 1000)
        /\ musical.bass_velocity >= 0
        /\ musical.bass_velocity <= 1000

\* C5: for every temperature the returned filter cutoff lies in [400, 3000] Hz
\* and the reverb mix in [0, 50] percent; a temperature of 30 or below gives
\* exactly 400 Hz and 0 percent, one of 70 or above exactly 3000 Hz and 50.
C5_TempEffects ==
    Returned =>
        /\ musical.filter_cutoff >= 400 * TempDen
        /\ musical.filter_cutoff <= 3000 * TempDen
        /\ musical.reverb_mix >= 0
        /\ musical.reverb_mix <= 50 * TempDen
        /\ metrics.temperature <= 300 =>
              /\ musical.filter_cutoff = 400 * TempDen
              /\ musical.reverb_mix = 0
        /\ metrics.temperature >= 700 =>
              /\ musical.filter_cutoff = 3000 * TempDen
              /\ musical.reverb_mix = 50 * TempDen

C5_Witness ==
    /\ Returned
    /\ metrics.temperature < 300
    /\ musical.filter_cutoff = 400 * TempDen
    /\ musical.reverb_mix = 0

\* C6: the bass register is a three-bucket step function of memory_usage with
\* strict upper tests (> 75 ominous A2, > 50 and <= 75 mid E2, <= 50 light E3),
\* and the bass note and its description are paired one to one.
C6_BassBuckets ==
    Returned =>
        /\ metrics.memory_usage > 750 =>
              musical.bass_note = "A2" /\ musical.bass_desc = "Deep, ominous"
        /\ (metrics.memory_usage > 500 /\ metrics.memory_usage <= 750) =>
              musical.bass_note = "E2" /\ musical.bass_desc = "Mid-range"
        /\ metrics.memory_usage <= 500 =>
              musical.bass_note = "E3" /\ musical.bass_desc = "Light, comfortable"
        /\ musical.bass_note = "A2" <=> musical.bass_desc = "Deep, ominous"
        /\ musical.bass_note = "E2" <=> musical.bass_desc = "Mid-range"
        /\ musical.bass_note = "E3" <=> musical.bass_desc = "Light, comfortable"

C6_Witness ==
    /\ Returned
    /\ metrics.memory_usage = 750
    /\ musical.bass_note = "E2"
    /\ musical.bass_desc = "Mid-range"

\* C7: map_to_music is monotone in each driving metric, the other fields held
\* fixed: a larger cpu_usage within [0, 100] never gives a smaller scale
\* index, a larger rx + tx never a smaller tempo, and a larger temperature
\* never a smaller filter cutoff or reverb mix.
C7_Monotone ==
    Returned =>
        /\ \A b \in CpuValues :
              (0 <= metrics.cpu_usage /\ metrics.cpu_usage <= b /\ b <= 1000) =>
                 IndexOf(musical.melody_note)
                    <= IndexOf(map_to_music([metrics EXCEPT !.cpu_usage = b]).melody_note)
        /\ \A rx \in NetRxValues, tx \in NetTxValues :
              metrics.network_rx_bytes + metrics.network_tx_bytes <= rx + tx =>
                 musical.tempo
                    <= map_to_music([metrics EXCEPT !.network_rx_bytes = rx,
                                                    !.network_tx_bytes = tx]).tempo
        /\ \A t \in TempValues :
              metrics.temperature <= t =>
                 LET hotter == map_to_music([metrics EXCEPT !.temperature = t])
                 IN  /\ musical.filter_cutoff <= hotter.filter_cutoff
                     /\ musical.reverb_mix <= hotter.reverb_mix

C7_Witness ==
    /\ Returned
    /\ metrics.cpu_usage = 250
    /\ IndexOf(musical.melody_note)
          < IndexOf(map_to_music([metrics EXCEPT !.cpu_usage = 1000]).melody_note)
    /\ metrics.network_rx_bytes + metrics.network_tx_bytes < 0
    /\ musical.tempo < map_to_music([metrics EXCEPT !.network_rx_bytes = 2048]).tempo
    /\ metrics.temperature = 500
    /\ musical.reverb_mix < map_to_music([metrics EXCEPT !.temperature = 580]).reverb_mix

\* C8 as stated: the Idle snapshot gives melody index 0, the light bass, sparse
\* rhythm, a tempo rounding to 90 BPM, a filter cutoff rounding to 1025 Hz, a
\* reverb mix rounding to 3 percent and the atmosphere "Tight, dry".
C8_IdleAsStated ==
    (Returned /\ metrics = Idle) =>
        /\ IndexOf(musical.melody_note) = 0
        /\ musical.bass_note = "E3"
        /\ musical.rhythm = "Sparse (4-on-floor)"
        /\ 2 * musical.tempo >= 179 * NetRef /\ 2 * musical.tempo <= 181 * NetRef
        /\ 2 * musical.filter_cutoff >= 2049 * TempDen
        /\ 2 * musical.filter_cutoff <= 2051 * TempDen
        /\ 2 * musical.reverb_mix >= 5 * TempDen
        /\ 2 * musical.reverb_mix <= 7 * TempDen
        /\ musical.atmosphere = "Tight, dry"

\* C8 amended: the Idle snapshot gives melody index 0, the light bass, sparse
\* rhythm, a tempo rounding to 90 BPM, a filter cutoff of exactly 1050 Hz, a
\* reverb mix of exactly 12.5 percent and the atmosphere "Tight, dry".
C8_Idle ==
    (Returned /\ metrics = Idle) =>
        /\ IndexOf(musical.melody_note) = 0
        /\ musical.melody_note = "A3"
        /\ musical.bass_note = "E3"
        /\ musical.bass_desc = "Light, comfortable"
        /\ musical.rhythm = "Sparse (4-on-floor)"
        /\ 2 * musical.tempo >= 179 * NetRef /\ 2 * musical.tempo < 181 * NetRef
        /\ musical.filter_cutoff = 1050 * TempDen
        /\ 2 * musical.reverb_mix = 25 * TempDen
        /\ musical.atmosphere = "Tight, dry"

C8_Witness == Returned /\ metrics = Idle /\ musical.atmosphere = "Tight, dry"

\* Rhythm bucket of a disk sum normalised by IoRef and clamped to [0, 1].
RhythmOfClamped(sum) ==
    IF 10 * Clamp(sum, 0, IoRef) < 3 * IoRef THEN "Sparse (4-on-floor)"
    ELSE IF 10 * Clamp(sum, 0, IoRef) < 6 * IoRef THEN "Moderate (with fills)"
    ELSE "Dense (complex polyrhythms)"

DiskSum == metrics.disk_read_bytes + metrics.disk_write_bytes

\* C9: rhythm density is a three-bucket step function of disk_read_bytes +
\* disk_write_bytes normalised by 10,000,000 and clamped to [0, 1]: below
\* 3,000,000 (negative sums included) sparse, from 3,000,000 up to but
\* excluding 6,000,000 moderate, 6,000,000 or more dense.
C9_RhythmBuckets ==
    Returned =>
        /\ musical.rhythm = RhythmOfClamped(DiskSum)
        /\ DiskSum < 3000000 => musical.rhythm = "Sparse (4-on-floor)"
        /\ (DiskSum >= 3000000 /\ DiskSum < 6000000) =>
              musical.rhythm = "Moderate (with fills)"
        /\ DiskSum >= 6000000 => musical.rhythm = "Dense (complex polyrhythms)"

C9_Witness ==
    /\ Returned
    /\ DiskSum = 3000000
    /\ musical.rhythm = "Moderate (with fills)"

\* C10: the atmosphere label agrees with the continuous temperature outputs:
\* "Tight, dry" exactly when reverb mix < 15 (temperature < 42), "Moderate
\* space" exactly when 15 <= reverb mix < 35 (42 <= temperature < 58), and
\* "Spacious, concerning" exactly when reverb mix >= 35 (temperature >= 58).
C10_AtmosphereConsistent ==
    Returned =>
        /\ musical.atmosphere = "Tight, dry" <=> musical.reverb_mix < 15 * TempDen
        /\ musical.atmosphere = "Tight, dry" <=> metrics.temperature < 420
        /\ musical.atmosphere = "Moderate space" <=>
              (musical.reverb_mix >= 15 * TempDen /\ musical.reverb_mix < 35 * TempDen)
        /\ musical.atmosphere = "Moderate space" <=>
              (metrics.temperature >= 420 /\ metrics.temperature < 580)
        /\ musical.atmosphere = "Spacious, concerning" <=>
              musical.reverb_mix >= 35 * TempDen
        /\ musical.atmosphere = "Spacious, concerning" <=> metrics.temperature >= 580

C10_Witness ==
    /\ Returned
    /\ metrics.temperature = 420
    /\ musical.atmosphere = "Moderate space"
    /\ musical.reverb_mix = 15 * TempDen

====
